---- MODULE Spec2Model ----
(***************************************************************************)
(* A model of the indexed priority queue (indexedheap.py) and of the       *)
(* shortest-path search built on it (dijkstra.py).                         *)
(*                                                                         *)
(* Python lists are 0-based; a list is a TLA+ sequence read through Get,   *)
(* so every position below is the Python position.  A Python exception is  *)
(* the field `raised` of the list: once it is set every later mutation of  *)
(* the aborted call is skipped, and what was mutated before it stays.      *)
(***************************************************************************)
EXTENDS Integers, Sequences, FiniteSets, TLC

\* Bounds of the model.
MaxItems == 4
MaxWeight == 1
MaxVertices == 3
MaxEdgeWeight == 1
MaxEdges == 3
MaxSlots == 3

Items == 1..MaxItems
Weights == 0..MaxWeight
VertexIds == 1..MaxVertices
Hashables == Items \cup VertexIds

NoError == ""

(***************************************************************************)
(* (weight, item) pairs and Python's tuple comparison.                     *)
(***************************************************************************)
Pair(weight, item) == <<weight, item>>

Lt(p, q) == p[1] < q[1] \/ (p[1] = q[1] /\ p[2] < q[2])

(***************************************************************************)
(* _IndexedWeightList: the list of pairs and, per item, the set of its     *)
(* positions (a defaultdict(set): every item has a set, empty at first).   *)
(***************************************************************************)
Get(L, i) == L.arr[i + 1]

Size(L) == Len(L.arr)

Raise(L, e) == [L EXCEPT !.raised = e]

IWL_init(iterable) ==
    [arr |-> iterable,
     idx |-> [it \in Hashables |->
                {i \in 0..(Len(iterable) - 1) : iterable[i + 1][2] = it}],
     raised |-> NoError]

IWL_setitem(L, i, pair) ==
    IF L.raised # NoError THEN L
    ELSE IF i < 0 \/ i >= Size(L) THEN Raise(L, "IndexError")
    ELSE LET old_item == Get(L, i)[2]
         IN  IF i \notin L.idx[old_item] THEN Raise(L, "KeyError")
             ELSE LET removed == [L.idx EXCEPT ![old_item] = @ \ {i}]
                      added == [removed EXCEPT ![pair[2]] = @ \cup {i}]
                  IN  [L EXCEPT !.arr[i + 1] = pair, !.idx = added]

IWL_hasindex(L, item) == Cardinality(L.idx[item]) = 1

IWL_index(L, item) == CHOOSE only \in L.idx[item] : TRUE

IWL_contains(L, item) == L.idx[item] # {}

IWL_append(L, pair) ==
    IF L.raised # NoError THEN L
    ELSE [L EXCEPT !.arr = Append(@, pair),
                   !.idx[pair[2]] = @ \cup {Len(L.arr)}]

\* pop() returns the list without its last pair; the pair itself is IWL_last.
IWL_last(L) == L.arr[Len(L.arr)]

\* IWL_pop forgetting to drop the popped position from the item's set.
IWL_pop_keepsIndex(L) ==
    IF L.raised # NoError THEN L
    ELSE IF Size(L) = 0 THEN Raise(L, "IndexError")
    ELSE [L EXCEPT !.arr = SubSeq(@, 1, Size(L) - 1)]

IWL_pop(L) ==
    IF L.raised # NoError THEN L
    ELSE IF Size(L) = 0 THEN Raise(L, "IndexError")
    ELSE LET item == IWL_last(L)[2]
             n == Size(L) - 1
         IN  IF n \notin L.idx[item]
             THEN Raise([L EXCEPT !.arr = SubSeq(@, 1, n)], "KeyError")
             ELSE [L EXCEPT !.arr = SubSeq(@, 1, n), !.idx[item] = @ \ {n}]

(***************************************************************************)
(* pyheapq: the heap algorithms IndexedHeap calls on the list.  siftdown   *)
(* moves the pair at pos toward the root (position startpos), siftup moves *)
(* it to a leaf and then back toward the root.                             *)
(***************************************************************************)
\* One statement after another: F of the value the first has left, that value
\* being worked out once however often F reads it.
Then(first, F(_)) == CHOOSE after \in {F(M) : M \in {first}} : TRUE

RECURSIVE siftdown_loop(_, _, _, _)
siftdown_loop(L, startpos, pos, newitem) ==
    IF pos > startpos
    THEN LET parentpos == (pos - 1) \div 2
             parent == Get(L, parentpos)
         IN  IF Lt(newitem, parent)
             THEN Then(IWL_setitem(L, pos, parent),
                       LAMBDA M : siftdown_loop(M, startpos, parentpos, newitem))
             ELSE IWL_setitem(L, pos, newitem)
    ELSE IWL_setitem(L, pos, newitem)

siftdown(L, startpos, pos) == siftdown_loop(L, startpos, pos, Get(L, pos))

RECURSIVE siftup_loop(_, _, _, _)
siftup_loop(L, startpos, pos, newitem) ==
    LET endpos == Size(L)
        leftpos == 2 * pos + 1
        rightpos == leftpos + 1
    IN  IF leftpos < endpos
        THEN LET childpos == IF rightpos < endpos
                                /\ ~Lt(Get(L, leftpos), Get(L, rightpos))
                             THEN rightpos ELSE leftpos
             IN  Then(IWL_setitem(L, pos, Get(L, childpos)),
                      LAMBDA M : siftup_loop(M, startpos, childpos, newitem))
        ELSE Then(IWL_setitem(L, pos, newitem),
                  LAMBDA M : siftdown(M, startpos, pos))

siftup(L, pos) == siftup_loop(L, pos, pos, Get(L, pos))

RECURSIVE heapify_loop(_, _)
heapify_loop(L, i) ==
    IF i < 0 THEN L ELSE heapify_loop(siftup(L, i), i - 1)

heapify(L) == heapify_loop(L, (Size(L) \div 2) - 1)

\* Each of the next four yields [L |-> the list afterwards, ret |-> <<pair>>],
\* ret being << >> when the call raised.
heappush(L, pair) ==
    LET A == IWL_append(L, pair)
    IN  [L |-> siftdown(A, 0, Size(A) - 1), ret |-> << >>]

heappop(L) ==
    LET rest(P) ==
            IF P.raised # NoError THEN [L |-> P, ret |-> << >>]
            ELSE IF Size(P) > 0
            THEN [L |-> Then(IWL_setitem(P, 0, IWL_last(L)), LAMBDA M : siftup(M, 0)),
                  ret |-> <<Get(P, 0)>>]
            ELSE [L |-> P, ret |-> <<IWL_last(L)>>]
    IN  Then(IWL_pop(L), rest)

heapreplace(L, pair) ==
    IF Size(L) = 0 THEN [L |-> Raise(L, "IndexError"), ret |-> << >>]
    ELSE [L |-> siftup(IWL_setitem(L, 0, pair), 0), ret |-> <<Get(L, 0)>>]

heappushpop(L, pair) ==
    IF Size(L) > 0 /\ Lt(Get(L, 0), pair)
    THEN [L |-> siftup(IWL_setitem(L, 0, pair), 0), ret |-> <<Get(L, 0)>>]
    ELSE [L |-> L, ret |-> <<pair>>]

(***************************************************************************)
(* IndexedHeap.  Every method yields [L |-> the list afterwards,           *)
(* ret |-> <<item>> or << >> for None or a raised exception].              *)
(***************************************************************************)
ItemOf(r) == IF r.L.raised # NoError \/ r.ret = << >>
             THEN [L |-> r.L, ret |-> << >>]
             ELSE [L |-> r.L, ret |-> <<r.ret[1][2]>>]

IH_init(iterable) == heapify(IWL_init(iterable))

IH_len(L) == Size(L)

IH_contains(L, item) == IWL_contains(L, item)

\* IH_push refusing an item that is already in the queue.
IH_push_checked(L, item, weight) ==
    IF IH_contains(L, item) THEN [L |-> Raise(L, "ValueError"), ret |-> << >>]
    ELSE ItemOf(heappush(L, Pair(weight, item)))

IH_push(L, item, weight) == ItemOf(heappush(L, Pair(weight, item)))

\* IH_pop calling the list's own pop (the last pair) instead of heappop.
IH_pop_last(L) ==
    ItemOf([L |-> IWL_pop(L), ret |-> IF Size(L) = 0 THEN << >> ELSE <<IWL_last(L)>>])

IH_pop(L) == ItemOf(heappop(L))

\* IH_peek reading the last slot, heap[-1], instead of heap[0].
IH_peek_last(L) ==
    IF Size(L) = 0 THEN [L |-> Raise(L, "IndexError"), ret |-> << >>]
    ELSE [L |-> L, ret |-> <<IWL_last(L)[2]>>]

\* IH_peek returning None on an empty queue instead of raising.
IH_peek_noneOnEmpty(L) ==
    IF Size(L) = 0 THEN [L |-> L, ret |-> << >>]
    ELSE [L |-> L, ret |-> <<Get(L, 0)[2]>>]

IH_peek(L) ==
    IF Size(L) = 0 THEN [L |-> Raise(L, "IndexError"), ret |-> << >>]
    ELSE [L |-> L, ret |-> <<Get(L, 0)[2]>>]

\* IH_pushpop calling heapreplace (pop, then push) instead of heappushpop.
IH_pushpop_asReplace(L, item, weight) == ItemOf(heapreplace(L, Pair(weight, item)))

IH_pushpop(L, item, weight) == ItemOf(heappushpop(L, Pair(weight, item)))

\* IH_poppush calling heappushpop (push, then pop) instead of heapreplace.
IH_poppush_asPushPop(L, item, weight) == ItemOf(heappushpop(L, Pair(weight, item)))

IH_poppush(L, item, weight) == ItemOf(heapreplace(L, Pair(weight, item)))

\* IH_change_weight without its elif branch: a raised weight is not sifted.
IH_change_weight_noElif(L, item, weight) ==
    IF ~IWL_hasindex(L, item) THEN [L |-> Raise(L, "ValueError"), ret |-> << >>]
    ELSE LET i == IWL_index(L, item)
             old_weight == Get(L, i)[1]
             S == IWL_setitem(L, i, Pair(weight, Get(L, i)[2]))
         IN  [L |-> IF weight < old_weight THEN siftdown(S, 0, IWL_index(S, item))
                    ELSE S,
              ret |-> << >>]

\* IH_change_weight with the two sifts exchanged.
IH_change_weight_swapped(L, item, weight) ==
    IF ~IWL_hasindex(L, item) THEN [L |-> Raise(L, "ValueError"), ret |-> << >>]
    ELSE LET i == IWL_index(L, item)
             old_weight == Get(L, i)[1]
             S == IWL_setitem(L, i, Pair(weight, Get(L, i)[2]))
         IN  [L |-> IF weight < old_weight THEN siftup(S, IWL_index(S, item))
                    ELSE IF weight > old_weight THEN siftdown(S, 0, IWL_index(S, item))
                    ELSE S,
              ret |-> << >>]

\* IH_change_weight inserting an item it does not find instead of raising.
IH_change_weight_upsert(L, item, weight) ==
    IF ~IWL_hasindex(L, item) THEN ItemOf(heappush(L, Pair(weight, item)))
    ELSE LET i == IWL_index(L, item)
             old_weight == Get(L, i)[1]
             S == IWL_setitem(L, i, Pair(weight, Get(L, i)[2]))
         IN  [L |-> IF weight < old_weight THEN siftdown(S, 0, IWL_index(S, item))
                    ELSE IF weight > old_weight THEN siftup(S, IWL_index(S, item))
                    ELSE S,
              ret |-> << >>]

IH_change_weight(L, item, weight) ==
    IF ~IWL_hasindex(L, item) THEN [L |-> Raise(L, "ValueError"), ret |-> << >>]
    ELSE LET i == IWL_index(L, item)
             old_weight == Get(L, i)[1]
             S == IWL_setitem(L, i, Pair(weight, Get(L, i)[2]))
         IN  [L |-> IF weight < old_weight THEN siftdown(S, 0, IWL_index(S, item))
                    ELSE IF weight > old_weight THEN siftup(S, IWL_index(S, item))
                    ELSE S,
              ret |-> << >>]

(***************************************************************************)
(* The queue as a state machine: one action per IndexedHeap method.  op,   *)
(* arg, ret, exc and pre record the last call, its arguments, what it      *)
(* returned or raised, and the list before it.                             *)
(***************************************************************************)
VARIABLES heap, op, arg, ret, exc, pre

\* The graph (Graph.vertices, Graph.edges) and the locals of one
\* distance_and_shortest_path call; pc is the place the call has reached.
VARIABLES vertices, edges, pc, source, destination, distance, predecessor,
          v, v_dist, k, path, result

qvars == <<heap, op, arg, ret, exc, pre>>

gvars == <<vertices, edges>>

svars == <<source, destination, distance, predecessor, v, v_dist, k, path, result>>

vars == <<qvars, gvars, pc, svars>>

\* Before a search starts its locals are unset.
Unset ==
    /\ source = 0 /\ destination = 0
    /\ distance = << >> /\ predecessor = << >>
    /\ v = 0 /\ v_dist = 0 /\ k = 0
    /\ path = << >> /\ result = << >>

\* The iterables a queue is built from: every sequence of at most n pairs over
\* pairwise distinct items, in every order.
RECURSIVE Iterables(_)
Iterables(n) ==
    IF n = 0 THEN {<< >>}
    ELSE LET shorter == Iterables(n - 1)
         IN  shorter \cup
             UNION {{Append(s, Pair(w, it)) :
                        w \in Weights,
                        it \in {x \in Items : \A j \in 1..Len(s) : s[j][2] # x}} :
                    s \in {t \in shorter : Len(t) = n - 1}}

Call(name, a, r) ==
    /\ op' = name
    /\ arg' = a
    /\ pre' = heap
    /\ heap' = [r.L EXCEPT !.raised = NoError]
    /\ exc' = r.L.raised
    /\ ret' = r.ret

Init ==
    /\ \E iterable \in Iterables(MaxItems) : heap = IH_init(iterable)
    /\ pre = IWL_init(<< >>)
    /\ op = "init"
    /\ arg = << >>
    /\ ret = << >>
    /\ exc = NoError
    /\ vertices = {} /\ edges = [x \in VertexIds |-> << >>]
    /\ pc = "queue"
    /\ Unset

Push ==
    \E item \in Items, weight \in Weights :
        /\ ~IH_contains(heap, item)
        /\ Call("push", <<item, weight>>, IH_push(heap, item, weight))
        /\ UNCHANGED <<gvars, pc, svars>>

Pop ==
    /\ Call("pop", << >>, IH_pop(heap))
    /\ UNCHANGED <<gvars, pc, svars>>

Peek ==
    /\ Call("peek", << >>, IH_peek(heap))
    /\ UNCHANGED <<gvars, pc, svars>>

PushPop ==
    \E item \in Items, weight \in Weights :
        /\ ~IH_contains(heap, item)
        /\ Call("pushpop", <<item, weight>>, IH_pushpop(heap, item, weight))
        /\ UNCHANGED <<gvars, pc, svars>>

PopPush ==
    \E item \in Items, weight \in Weights :
        /\ ~IH_contains(heap, item)
        /\ Call("poppush", <<item, weight>>, IH_poppush(heap, item, weight))
        /\ UNCHANGED <<gvars, pc, svars>>

ChangeWeight ==
    \E item \in Items, weight \in Weights :
        /\ Call("change_weight", <<item, weight>>, IH_change_weight(heap, item, weight))
        /\ UNCHANGED <<gvars, pc, svars>>

Next == Push \/ Pop \/ Peek \/ PushPop \/ PopPush \/ ChangeWeight

Spec == Init /\ [][Next]_vars

\* The queue in the hands of a caller that pushes whatever it likes, items
\* already queued included, onto a queue built empty, IndexedHeap(), until
\* the list has MaxSlots slots.
AnyInit ==
    /\ heap = IH_init(<< >>)
    /\ pre = IWL_init(<< >>)
    /\ op = "init" /\ arg = << >> /\ ret = << >> /\ exc = NoError
    /\ vertices = {} /\ edges = [x \in VertexIds |-> << >>]
    /\ pc = "queue"
    /\ Unset

PushAny ==
    /\ Size(heap) < MaxSlots
    /\ \E item \in Items, weight \in Weights :
          Call("push", <<item, weight>>, IH_push(heap, item, weight))
    /\ UNCHANGED <<gvars, pc, svars>>

AnyNext == PushAny \/ Pop \/ ChangeWeight

AnySpec == AnyInit /\ [][AnyNext]_vars

(***************************************************************************)
(* dijkstra.py: Graph.add_edge builds the graph, one                       *)
(* distance_and_shortest_path call searches it.  math.inf is Inf, a number *)
(* above every sum of edge weights the model can form; None is << >>.      *)
(* Nothing here catches an exception: a call that raises ends the run, at  *)
(* pc = "raised".                                                          *)
(***************************************************************************)
Inf == MaxEdges * MaxEdgeWeight + 1

Plus(a, b) == IF a = Inf THEN Inf ELSE a + b

\* Line 72 with the distance to v left out of the sum.
AltDist_edgeOnly(dist_v, edge_weight) == edge_weight

AltDist(dist_v, edge_weight) == Plus(dist_v, edge_weight)

\* Line 51 testing the source alone.
KnownVertices_sourceOnly(s, d) == s \in vertices

\* Line 51: {source, destination} <= self.vertices.
KnownVertices(s, d) == {s, d} \subseteq vertices

\* Lines 56-57 without `distance[source] = 0`.
InitialDistance_allInf(x, s) == Inf

\* Lines 56-57: the distance a vertex x starts with in a search from s.
InitialDistance(x, s) == IF x = s THEN 0 ELSE Inf

\* Line 78 never finding the destination unreached.
NoPathFound_never(d) == FALSE

\* Line 78: distance[destination] == inf.
NoPathFound(d) == d = Inf

\* Line 73 with <= for <.
Improves_orEqual(alt_dist, old) == alt_dist <= old

\* Line 73 without its test: every edge overwrites the distance.
Improves_always(alt_dist, old) == TRUE

\* Line 73: alt_dist < distance[neighbor].
Improves(alt_dist, old) == alt_dist < old

Reverse(s) == [i \in 1..Len(s) |-> s[Len(s) + 1 - i]]

\* The orders in which iterating over the set S can yield its elements.
Orders(S) == {s \in [1..Cardinality(S) -> S] : \A i, j \in DOMAIN s : i # j => s[i] # s[j]}

EdgeCount == LET RECURSIVE Sum(_)
                 Sum(S) == IF S = {} THEN 0
                           ELSE LET one == CHOOSE x \in S : TRUE
                                IN  Len(edges[one]) + Sum(S \ {one})
             IN  Sum(VertexIds)

SearchInit ==
    /\ heap = IWL_init(<< >>) /\ pre = IWL_init(<< >>)
    /\ op = "init" /\ arg = << >> /\ ret = << >> /\ exc = NoError
    /\ vertices = {} /\ edges = [x \in VertexIds |-> << >>]
    /\ pc = "build"
    /\ Unset

\* add_edge testing the weight after it has stored the edge.
AddEdge_checkAfter ==
    /\ pc = "build"
    /\ EdgeCount < MaxEdges
    /\ \E s \in VertexIds, d \in VertexIds, weight \in (-1)..MaxEdgeWeight :
          /\ op' = "add_edge"
          /\ arg' = <<s, d, weight>>
          /\ vertices' = vertices \cup {d, s}
          /\ edges' = [edges EXCEPT ![s] = Append(@, <<d, weight>>)]
          /\ IF weight < 0
             THEN exc' = "ValueError" /\ pc' = "raised"
             ELSE exc' = NoError /\ UNCHANGED pc
    /\ UNCHANGED <<heap, ret, pre, svars>>

AddEdge ==
    /\ pc = "build"
    /\ EdgeCount < MaxEdges
    /\ \E s \in VertexIds, d \in VertexIds, weight \in (-1)..MaxEdgeWeight :
          /\ op' = "add_edge"
          /\ arg' = <<s, d, weight>>
          /\ IF weight < 0
             THEN /\ exc' = "ValueError"
                  /\ pc' = "raised"
                  /\ UNCHANGED gvars
             ELSE /\ exc' = NoError
                  /\ vertices' = vertices \cup {d, s}
                  /\ edges' = [edges EXCEPT ![s] = Append(@, <<d, weight>>)]
                  /\ UNCHANGED pc
    /\ UNCHANGED <<heap, ret, pre, svars>>

\* distance_and_shortest_path up to its loop: lines 51-61.
Start ==
    /\ pc = "build"
    /\ \E s \in VertexIds, d \in VertexIds :
          /\ source' = s
          /\ destination' = d
          /\ IF ~KnownVertices(s, d)
             THEN /\ pc' = "done"
                  /\ result' = <<Inf, << >> >>
                  /\ op' = "search" /\ arg' = <<s, d>> /\ exc' = NoError
                  /\ UNCHANGED <<heap, ret, pre, distance>>
             ELSE LET dist == [x \in vertices |-> InitialDistance(x, s)]
                  IN  /\ distance' = dist
                      /\ \E order \in Orders(vertices) :
                            Call("init", <<s, d>>,
                                 [L |-> IH_init([i \in DOMAIN order |->
                                                   Pair(dist[order[i]], order[i])]),
                                  ret |-> << >>])
                      /\ pc' = "loop"
                      /\ UNCHANGED result
    /\ UNCHANGED <<gvars, predecessor, v, v_dist, k, path>>

\* The loop's test, `h.peek() != destination`, and, when it ends the loop,
\* lines 78-83.
LoopTest ==
    /\ pc = "loop"
    /\ \E r \in {IH_peek(heap)} :
           /\ Call("peek", << >>, r)
           /\ IF r.L.raised # NoError
              THEN pc' = "raised" /\ UNCHANGED <<path, result>>
              ELSE IF r.ret[1] # destination
              THEN pc' = "extract" /\ UNCHANGED <<path, result>>
              ELSE IF NoPathFound(distance[destination])
              THEN pc' = "done" /\ result' = <<Inf, << >> >> /\ UNCHANGED path
              ELSE pc' = "walk" /\ path' = <<destination>> /\ UNCHANGED result
    /\ UNCHANGED <<gvars, source, destination, distance, predecessor, v, v_dist, k>>

\* Lines 66-67: v = h.pop(); v_dist = distance[v].
Extract ==
    /\ pc = "extract"
    /\ \E r \in {IH_pop(heap)} :
           /\ Call("pop", << >>, r)
           /\ IF r.L.raised # NoError
              THEN pc' = "raised" /\ UNCHANGED <<v, v_dist, k>>
              ELSE /\ v' = r.ret[1]
                   /\ v_dist' = distance[r.ret[1]]
                   /\ k' = 1
                   /\ pc' = IF Len(edges[r.ret[1]]) = 0 THEN "loop" ELSE "relax"
    /\ UNCHANGED <<gvars, source, destination, distance, predecessor, path, result>>

\* Relax recording the better distance without telling the queue (no line 76).
Relax_noChangeWeight ==
    /\ pc = "relax"
    /\ LET neighbor == edges[v][k][1]
           alt_dist == AltDist(v_dist, edges[v][k][2])
       IN  IF Improves(alt_dist, distance[neighbor])
           THEN /\ distance' = [distance EXCEPT ![neighbor] = alt_dist]
                /\ predecessor' =
                      [x \in DOMAIN predecessor \cup {neighbor} |->
                          IF x = neighbor THEN v ELSE predecessor[x]]
           ELSE UNCHANGED <<distance, predecessor>>
    /\ pc' = IF k < Len(edges[v]) THEN "relax" ELSE "loop"
    /\ k' = k + 1
    /\ UNCHANGED <<qvars, gvars, source, destination, v, v_dist, path, result>>

\* Lines 68-76 for the k-th edge out of v.
Relax ==
    /\ pc = "relax"
    /\ LET neighbor == edges[v][k][1]
           edge_weight == edges[v][k][2]
           alt_dist == AltDist(v_dist, edge_weight)
           more == IF k < Len(edges[v]) THEN "relax" ELSE "loop"
       IN  IF Improves(alt_dist, distance[neighbor])
           THEN \E r \in {IH_change_weight(heap, neighbor, alt_dist)} :
                    /\ distance' = [distance EXCEPT ![neighbor] = alt_dist]
                    /\ predecessor' =
                          [x \in DOMAIN predecessor \cup {neighbor} |->
                              IF x = neighbor THEN v ELSE predecessor[x]]
                    /\ Call("change_weight", <<neighbor, alt_dist>>, r)
                    /\ pc' = IF r.L.raised # NoError THEN "raised" ELSE more
           ELSE /\ pc' = more
                /\ UNCHANGED <<qvars, distance, predecessor>>
    /\ k' = k + 1
    /\ UNCHANGED <<gvars, source, destination, v, v_dist, path, result>>

\* Lines 84-87: one turn of the walk back along the predecessors, or its end.
\* A walk longer than the vertex set has entered a cycle and is left there.
Walk ==
    /\ pc = "walk"
    /\ Len(path) <= Cardinality(vertices)
    /\ LET last == path[Len(path)]
       IN  IF last = source
           THEN /\ pc' = "done"
                /\ result' = <<distance[destination], Reverse(path)>>
                /\ UNCHANGED <<path, exc>>
           ELSE IF last \notin DOMAIN predecessor
           THEN pc' = "raised" /\ exc' = "KeyError" /\ UNCHANGED <<path, result>>
           ELSE /\ path' = Append(path, predecessor[last])
                /\ UNCHANGED <<pc, result, exc>>
    /\ UNCHANGED <<heap, op, arg, ret, pre, gvars,
                   source, destination, distance, predecessor, v, v_dist, k>>

SearchNext == AddEdge \/ Start \/ LoopTest \/ Extract \/ Relax \/ Walk

SearchSpec == SearchInit /\ [][SearchNext]_vars

\* distance_and_shortest_path is one sequential call: once it has begun, the
\* interpreter takes its next step as long as there is one.
FairSearchSpec == SearchSpec /\ WF_vars(LoopTest \/ Extract \/ Relax \/ Walk)

(***************************************************************************)
(* distance_and_shortest_path once more, as a function of the graph and    *)
(* the query: what the actions above do step by step, done at a stroke, so *)
(* that the results on two graphs can be set side by side.  A call that    *)
(* raises yields << >>.  The vertex set is iterated in one fixed order.    *)
(***************************************************************************)
\* Lines 68-76: the edges es[i], es[i+1], ... out of the vertex u.
RECURSIVE relax_from(_, _, _, _, _)
relax_from(st, u, u_dist, es, i) ==
    IF st.raised \/ i > Len(es) THEN st
    ELSE LET neighbor == es[i][1]
             alt_dist == AltDist(u_dist, es[i][2])
         IN  IF Improves(alt_dist, st.distance[neighbor])
             THEN LET r == IH_change_weight(st.h, neighbor, alt_dist)
                  IN  relax_from(
                        [h |-> [r.L EXCEPT !.raised = NoError],
                         distance |-> [st.distance EXCEPT ![neighbor] = alt_dist],
                         predecessor |-> [x \in DOMAIN st.predecessor \cup {neighbor} |->
                                            IF x = neighbor THEN u ELSE st.predecessor[x]],
                         raised |-> r.L.raised # NoError],
                        u, u_dist, es, i + 1)
             ELSE relax_from(st, u, u_dist, es, i + 1)

\* Lines 65-76: the loop, to its end.
RECURSIVE search_loop(_, _, _)
search_loop(st, E, d) ==
    LET top == IH_peek(st.h)
    IN  IF st.raised THEN st
        ELSE IF top.L.raised # NoError THEN [st EXCEPT !.raised = TRUE]
        ELSE IF top.ret[1] = d THEN st
        ELSE LET r == IH_pop(st.h)
                 u == r.ret[1]
             IN  search_loop(relax_from([st EXCEPT !.h = r.L], u, st.distance[u], E[u], 1),
                             E, d)

\* Lines 83-86: the walk back from the end of p, << >> when it raises or
\* has gone on for more than n vertices.
RECURSIVE walk_back(_, _, _, _)
walk_back(p, pred, s, n) ==
    IF p[Len(p)] = s THEN Reverse(p)
    ELSE IF p[Len(p)] \notin DOMAIN pred \/ Len(p) > n THEN << >>
    ELSE walk_back(Append(p, pred[p[Len(p)]]), pred, s, n)

distance_and_shortest_path(vs, E, s, d) ==
    IF ~({s, d} \subseteq vs) THEN <<Inf, << >> >>
    ELSE LET dist == [x \in vs |-> InitialDistance(x, s)]
             order == CHOOSE o \in Orders(vs) : TRUE
             st == search_loop(
                     [h |-> IH_init([i \in DOMAIN order |-> Pair(dist[order[i]], order[i])]),
                      distance |-> dist,
                      predecessor |-> << >>,
                      raised |-> FALSE],
                     E, d)
         IN  IF st.raised THEN << >>
             ELSE IF NoPathFound(st.distance[d]) THEN <<Inf, << >> >>
             ELSE LET p == walk_back(<<d>>, st.predecessor, s, Cardinality(vs))
                  IN  IF p = << >> THEN << >> ELSE <<st.distance[d], p>>

(***************************************************************************)
(* What the claims speak of.                                               *)
(***************************************************************************)
Pairs(L) == {L.arr[j] : j \in 1..Len(L.arr)}

LiveItems(L) == {p[2] : p \in Pairs(L)}

PairOf(L, item) == CHOOSE p \in Pairs(L) : p[2] = item

HeapOrdered(L) ==
    \A i \in 1..(Size(L) - 1) : Get(L, (i - 1) \div 2)[1] <= Get(L, i)[1]

IndexConsistent(L) ==
    \A item \in DOMAIN L.idx :
        /\ L.idx[item] = {i \in 0..(Size(L) - 1) : Get(L, i)[2] = item}
        /\ Cardinality(L.idx[item]) <= 1
        /\ IH_contains(L, item) <=> item \in LiveItems(L)

HasMinWeight(L, item) ==
    /\ item \in LiveItems(L)
    /\ \A q \in Pairs(L) : PairOf(L, item)[1] <= q[1]

SameList(L, M) == L.arr = M.arr /\ L.idx = M.idx

\* Position a is b or lies on the path from b to the root.
RECURSIVE OnPathToRoot(_, _)
OnPathToRoot(a, b) ==
    IF a = b THEN TRUE
    ELSE IF b <= a THEN FALSE
    ELSE OnPathToRoot(a, (b - 1) \div 2)

\* The weights pop() returns when called until the queue is empty.
RECURSIVE PopAll(_)
PopAll(L) ==
    IF Size(L) = 0 THEN << >>
    ELSE LET r == IH_pop(L)
         IN  IF r.ret = << >> THEN << >>
             ELSE <<PairOf(L, r.ret[1])[1]>> \o PopAll(r.L)

NonDecreasing(s) == \A i \in 1..(Len(s) - 1) : s[i] <= s[i + 1]

\* C1: after construction and after every operation the array is a min-heap:
\* the weight at slot (i-1) div 2 is at most the weight at slot i, for i > 0.
C1_HeapOrdering == HeapOrdered(heap)

\* C1's case: a change_weight raised the weight of the root of a queue of four
\* and the item went down two levels.
C1_Witness ==
    /\ op = "change_weight" /\ exc = NoError
    /\ Size(heap) >= 4
    /\ IWL_index(pre, arg[1]) = 0
    /\ IWL_index(heap, arg[1]) = 3

\* C2: after construction and after every operation the item->index mapping
\* agrees exactly with the array: a live item has exactly one recorded index,
\* which is its slot, an item not in the array has none, and contains(item)
\* is true exactly of the items in a slot.
C2_IndexAgreesWithArray == IndexConsistent(heap)

\* C2's case: a pop from a queue of four truncated the array and moved pairs.
C2_Witness ==
    /\ op = "pop" /\ exc = NoError
    /\ Size(pre) >= 4
    /\ \E i \in 0..(Size(heap) - 1) : Get(heap, i) # Get(pre, i)

\* C3: peek() on a non-empty queue returns an item of minimum weight and
\* leaves the array, the index mapping and the size as they were.
C3_PeekIsMinimum ==
    (op = "peek" /\ Size(pre) > 0) =>
        /\ exc = NoError
        /\ Len(ret) = 1
        /\ HasMinWeight(pre, ret[1])
        /\ SameList(heap, pre)
        /\ IH_len(heap) = IH_len(pre)

\* C3's case: peek on a queue of at least three pairs, two of them of the
\* minimum weight.
C3_Witness ==
    /\ op = "peek" /\ exc = NoError
    /\ Size(pre) >= 3
    /\ \E it \in LiveItems(pre) \ {ret[1]} : HasMinWeight(pre, it)

\* C4: pop() on a non-empty queue returns an item of minimum weight, removes
\* exactly that pair, leaves the other pairs as they were, and makes the queue
\* one shorter; popping until empty returns every item, in non-decreasing
\* order of weight.
C4_PopRemovesMinimum ==
    /\ (op = "pop" /\ Size(pre) > 0) =>
          /\ exc = NoError
          /\ Len(ret) = 1
          /\ HasMinWeight(pre, ret[1])
          /\ Pairs(heap) = Pairs(pre) \ {PairOf(pre, ret[1])}
          /\ IH_len(heap) = IH_len(pre) - 1
    /\ Len(PopAll(heap)) = IH_len(heap)
    /\ NonDecreasing(PopAll(heap))

\* C4's case: a pop from a queue of four pairs of two different weights.
C4_Witness ==
    /\ op = "pop" /\ exc = NoError
    /\ Size(pre) >= 4
    /\ \E p, q \in Pairs(heap) : p[1] # q[1]

\* C5: change_weight(item, w) on a present item sets its weight to w, leaves
\* the live items, the other weights and the size as they were; a lower
\* weight moves the item toward the root, a higher one toward the leaves, an
\* equal one moves nothing; heap ordering and index consistency hold after.
C5_ChangeWeight ==
    (op = "change_weight" /\ arg[1] \in LiveItems(pre)) =>
        LET item == arg[1]
            w == arg[2]
            old == PairOf(pre, item)
            was == IWL_index(pre, item)
            now == IWL_index(heap, item)
        IN  /\ exc = NoError
            /\ Pairs(heap) = (Pairs(pre) \ {old}) \cup {Pair(w, item)}
            /\ IH_len(heap) = IH_len(pre)
            /\ IWL_hasindex(heap, item)
            /\ w < old[1] => OnPathToRoot(now, was)
            /\ w > old[1] => OnPathToRoot(was, now)
            /\ w = old[1] => SameList(heap, pre)
            /\ HeapOrdered(heap)
            /\ IndexConsistent(heap)

\* C5's case: a weight was lowered and the item rose two levels to the root.
C5_Witness ==
    /\ op = "change_weight" /\ exc = NoError
    /\ arg[1] \in LiveItems(pre)
    /\ arg[2] < PairOf(pre, arg[1])[1]
    /\ IWL_index(pre, arg[1]) = 3
    /\ IWL_index(heap, arg[1]) = 0

\* C6: pushpop(item, weight) of an absent item, on any queue (the empty one
\* included), returns what push followed by pop returns and leaves the same
\* live pairs; the size is unchanged, and a pushed pair that is the new minimum
\* is returned at once, the queue unmodified.
C6_PushPopIsPushThenPop ==
    (op = "pushpop") =>
        LET pushed == IH_push(pre, arg[1], arg[2])
            popped == IH_pop(pushed.L)
        IN  /\ exc = NoError
            /\ ret = popped.ret
            /\ Pairs(heap) = Pairs(popped.L)
            /\ IH_len(heap) = IH_len(pre)
            /\ (\A q \in Pairs(pre) : Lt(Pair(arg[2], arg[1]), q)) =>
                  (ret = <<arg[1]>> /\ SameList(heap, pre))

\* C6's case: a pushpop on a queue of at least three returned an item other
\* than the pushed one.
C6_Witness ==
    /\ op = "pushpop" /\ exc = NoError
    /\ Size(pre) >= 3
    /\ ret # <<arg[1]>>

\* C7: poppush(item, weight) of an absent item on a non-empty queue returns the
\* minimum item the queue had before the call, also when the new weight is
\* smaller, removes it, inserts the new pair, and keeps the size, the heap
\* ordering and the index consistency: the result and the contents of pop()
\* followed by push(item, weight).
C7_PopPushIsPopThenPush ==
    (op = "poppush" /\ Size(pre) > 0) =>
        LET popped == IH_pop(pre)
            pushed == IH_push(popped.L, arg[1], arg[2])
        IN  /\ exc = NoError
            /\ Len(ret) = 1
            /\ HasMinWeight(pre, ret[1])
            /\ ret = popped.ret
            /\ Pairs(heap) =
                  (Pairs(pre) \ {PairOf(pre, ret[1])}) \cup {Pair(arg[2], arg[1])}
            /\ Pairs(heap) = Pairs(pushed.L)
            /\ IH_len(heap) = IH_len(pre)
            /\ HeapOrdered(heap)
            /\ IndexConsistent(heap)

\* C7's case: the new weight is smaller than the minimum of a queue of three
\* or more, and the old minimum is returned all the same.
C7_Witness ==
    /\ op = "poppush" /\ exc = NoError
    /\ Size(pre) >= 3
    /\ \A q \in Pairs(pre) : arg[2] < q[1]
    /\ ret # <<arg[1]>>

\* C8: peek(), pop() and poppush(item, weight) on an empty queue raise an error,
\* return no item, and leave the queue empty, array and index unchanged.
C8_EmptyQueueRaises ==
    (op \in {"peek", "pop", "poppush"} /\ Size(pre) = 0) =>
        /\ exc # NoError
        /\ ret = << >>
        /\ SameList(heap, pre)
        /\ IH_len(heap) = 0

\* C8's case: a pop on an empty queue.
C8_Witness ==
    /\ op = "pop"
    /\ Size(pre) = 0
    /\ exc = "IndexError"

\* C9: change_weight(item, w) for an item not in the queue raises an error and
\* leaves the live pairs, their slots and the size unchanged.
C9_ChangeWeightOfAbsentItemRaises ==
    (op = "change_weight" /\ arg[1] \notin LiveItems(pre)) =>
        /\ exc # NoError
        /\ ret = << >>
        /\ SameList(heap, pre)
        /\ IH_len(heap) = IH_len(pre)

\* C9's case: change_weight of an absent item on a queue holding other items.
C9_Witness ==
    /\ op = "change_weight"
    /\ arg[1] \notin LiveItems(pre)
    /\ Size(pre) >= 2
    /\ exc = "ValueError"

(***************************************************************************)
(* What the claims about the search speak of: the graph's edges, and the   *)
(* least total weight of a path, computed by |vertices| rounds of relaxing *)
(* every edge (Bellman-Ford), which owes nothing to the queue.             *)
(***************************************************************************)
EdgesOf(u) == {edges[u][i] : i \in 1..Len(edges[u])}

\* Every edge as <<from, to, weight>>.
AllEdges == UNION {{<<u, e[1], e[2]>> : e \in EdgesOf(u)} : u \in VertexIds}

Least(S) == CHOOSE m \in S : \A n \in S : m <= n

RelaxAll(D) ==
    [x \in vertices |->
        Least({D[x]} \cup {Plus(D[e[1]], e[3]) : e \in {f \in AllEdges : f[2] = x}})]

RECURSIVE Rounds(_, _)
Rounds(D, n) == IF n = 0 THEN D ELSE Rounds(RelaxAll(D), n - 1)

\* The least total weight of a path from s to t, Inf when there is none.
ShortestDistance(s, t) ==
    Rounds([x \in vertices |-> IF x = s THEN 0 ELSE Inf], Cardinality(vertices))[t]

\* The totals the walk p can have, one edge chosen between each two
\* consecutive vertices (none when some two are not joined).
RECURSIVE PathTotals(_)
PathTotals(p) ==
    IF Len(p) <= 1 THEN {0}
    ELSE {e[3] + t : e \in {f \in AllEdges : f[1] = p[1] /\ f[2] = p[2]},
                     t \in PathTotals(Tail(p))}

\* A distance_and_shortest_path call is under way or has ended.
Searching ==
    /\ op # "add_edge"
    /\ pc \in {"loop", "extract", "relax", "walk", "done", "raised"}

\* C10: for a destination reachable from the source, both vertices of a graph
\* with non-negative weights, the search raises nothing, its walk back ends, and
\* it returns (d, path): d the least total weight of a source-to-destination
\* path, path from source to destination along edges of the graph, of total d.
C10_ShortestPath ==
    (/\ Searching
     /\ {source, destination} \subseteq vertices
     /\ ShortestDistance(source, destination) < Inf) =>
        /\ pc # "raised"
        /\ pc = "walk" => Len(path) <= Cardinality(vertices)
        /\ pc = "done" =>
              /\ Len(result) = 2
              /\ result[1] = ShortestDistance(source, destination)
              /\ Len(result[2]) >= 1
              /\ result[2][1] = source
              /\ result[2][Len(result[2])] = destination
              /\ \A i \in 1..(Len(result[2]) - 1) :
                    \E e \in AllEdges : e[1] = result[2][i] /\ e[2] = result[2][i + 1]
              /\ result[1] \in PathTotals(result[2])

\* C10's case: the search returned a path of two edges, one of weight zero,
\* that beats a direct edge from the source to the destination.
C10_Witness ==
    /\ pc = "done"
    /\ Len(result) = 2 /\ Len(result[2]) = 3
    /\ \E e \in AllEdges : e[1] = source /\ e[2] = destination /\ e[3] > result[1]
    /\ \E e \in AllEdges :
          e[3] = 0 /\ \E i \in 1..2 : e[1] = result[2][i] /\ e[2] = result[2][i + 1]

\* C11: for a destination not reachable from the source, both vertices of the
\* graph, the search raises nothing, never starts the walk back, and returns
\* (inf, None).
C11_Unreachable ==
    (/\ Searching
     /\ {source, destination} \subseteq vertices
     /\ ShortestDistance(source, destination) = Inf) =>
        /\ pc \notin {"raised", "walk"}
        /\ exc = NoError
        /\ pc = "done" => result = <<Inf, << >> >>

\* C11's case: the search returned (inf, None) after it had extracted the
\* source, which has an edge out, and a vertex it never reached.
C11_Witness ==
    /\ pc = "done" /\ op = "peek"
    /\ {source, destination} \subseteq vertices
    /\ result = <<Inf, << >> >>
    /\ edges[source] # << >>
    /\ v # source /\ v \in vertices /\ distance[v] = Inf

\* C12: when the source or the destination is not a vertex of the graph, the
\* call returns (inf, None) at once: it raises nothing, builds no queue and
\* leaves the vertex set and the edge lists as they were.
C12_UnknownVertex ==
    [][(/\ pc = "build"
        /\ op' # "add_edge"
        /\ ~({source', destination'} \subseteq vertices)) =>
          /\ pc' = "done"
          /\ result' = <<Inf, << >> >>
          /\ exc' = NoError
          /\ op' = "search"
          /\ heap' = heap /\ Size(heap') = 0
          /\ vertices' = vertices
          /\ edges' = edges]_vars

\* C12's case: the graph has edges, the source is a vertex of it and the
\* destination is not, and the call has returned.
C12_Witness ==
    /\ op = "search" /\ pc = "done"
    /\ source \in vertices
    /\ destination \notin vertices
    /\ result = <<Inf, << >> >>

\* C13: a search from a vertex of the graph to itself returns (0, [source]);
\* it extracts no vertex from the queue and relaxes no edge.
C13_SourceIsDestination ==
    (/\ Searching
     /\ source = destination
     /\ source \in vertices) =>
        /\ pc \in {"loop", "walk", "done"}
        /\ op \in {"init", "peek"}
        /\ exc = NoError
        /\ v = 0 /\ k = 0
        /\ predecessor = << >>
        /\ Size(heap) = Cardinality(vertices)
        /\ distance = [x \in vertices |-> IF x = source THEN 0 ELSE Inf]
        /\ pc = "done" => result = <<0, <<source>> >>

\* C13's case: the source has a self-loop of weight zero and an edge of weight
\* zero to another vertex, one with a smaller name, and the call has returned.
C13_Witness ==
    /\ pc = "done" /\ op = "peek"
    /\ source = destination
    /\ result = <<0, <<source>> >>
    /\ \E e \in AllEdges : e[1] = source /\ e[2] = source /\ e[3] = 0
    /\ \E e \in AllEdges : e[1] = source /\ e[2] < source /\ e[3] = 0

\* C14: add_edge(source, destination, weight) with weight < 0 raises and leaves
\* the vertex set and the edge lists as they were; with weight >= 0 it raises
\* nothing, adds both endpoints to the vertex set and appends the one edge
\* (destination, weight) to the source's list, the other lists untouched.
C14_AddEdge ==
    [][(pc = "build" /\ op' = "add_edge") =>
          LET s == arg'[1]
              d == arg'[2]
              weight == arg'[3]
          IN  IF weight < 0
              THEN /\ exc' = "ValueError"
                   /\ vertices' = vertices
                   /\ edges' = edges
              ELSE /\ exc' = NoError
                   /\ vertices' = vertices \cup {s, d}
                   /\ Len(edges'[s]) = Len(edges[s]) + 1
                   /\ SubSeq(edges'[s], 1, Len(edges[s])) = edges[s]
                   /\ edges'[s][Len(edges'[s])] = <<d, weight>>
                   /\ \A x \in VertexIds \ {s} : edges'[x] = edges[x]]_vars

\* C14's case: a negative weight was refused for an edge between a vertex of a
\* graph that has edges and a vertex the graph does not have.
C14_Witness ==
    /\ op = "add_edge" /\ exc = "ValueError"
    /\ arg[3] < 0
    /\ EdgeCount >= 1
    /\ arg[1] \in vertices
    /\ arg[2] \notin vertices

\* The sequence s without its i-th element.
RemoveAt(s, i) == SubSeq(s, 1, i - 1) \o SubSeq(s, i + 1, Len(s))

\* The places <<a, i, j>> of two parallel edges of different weights: the edges
\* i < j of a's list go to the same vertex.
ParallelEdges ==
    {t \in VertexIds \X (1..MaxEdges) \X (1..MaxEdges) :
        /\ t[2] < t[3] /\ t[3] <= Len(edges[t[1]])
        /\ edges[t[1]][t[2]][1] = edges[t[1]][t[3]][1]
        /\ edges[t[1]][t[2]][2] # edges[t[1]][t[3]][2]}

\* The edge lists without the heavier of the two edges at t.
WithoutHeavier(t) ==
    LET a == t[1]
        heavier == IF edges[a][t[2]][2] > edges[a][t[3]][2] THEN t[2] ELSE t[3]
    IN  [edges EXCEPT ![a] = RemoveAt(@, heavier)]

\* C15: in a graph with two parallel edges of different weights, whichever was
\* added first, every query returns the (distance, path) it returns on the
\* graph without the heavier of the two.
C15_ParallelEdges ==
    (Searching /\ pc = "done") =>
        \A t \in ParallelEdges :
            result = distance_and_shortest_path(vertices, WithoutHeavier(t),
                                                source, destination)

\* C15's case: the heavier of two parallel edges was added first, both were
\* relaxed, and the path returned goes along them.
C15_Witness ==
    /\ Searching /\ pc = "done"
    /\ Len(result) = 2 /\ Len(result[2]) = 2
    /\ \E t \in ParallelEdges :
          /\ t[1] = source
          /\ edges[t[1]][t[2]][1] = destination
          /\ edges[t[1]][t[2]][2] > edges[t[1]][t[3]][2]
          /\ result[1] = edges[t[1]][t[3]][2]

\* C16: in a search whose source and destination are vertices, peek and pop
\* are never executed on an empty queue, and the destination is in the queue
\* during the whole loop: no pop ever returns it, reachable or not.
C16_QueueNeverEmpty ==
    (Searching /\ op # "search") =>
        /\ op \in {"peek", "pop"} => (Size(pre) > 0 /\ exc = NoError)
        /\ op = "pop" => ret[1] # destination
        /\ exc # "IndexError"
        /\ pc \in {"loop", "extract", "relax"} =>
              (Size(heap) > 0 /\ destination \in LiveItems(heap))

\* C16's case: every other vertex has been extracted, the unreachable
\* destination alone is left in the queue, and the loop's test has peeked at it.
C16_Witness ==
    /\ Searching /\ pc = "done" /\ op = "peek"
    /\ Cardinality(vertices) = MaxVertices
    /\ Size(pre) = 1 /\ LiveItems(heap) = {destination}
    /\ distance[destination] = Inf
    /\ result = <<Inf, << >> >>

\* The vertices the loop has extracted from the queue so far.
Extractions == Cardinality(vertices) - Size(heap)

NoRepeat(s) == \A i, j \in DOMAIN s : i # j => s[i] # s[j]

\* C17: every search terminates: it returns, after at most |V| - 1 extractions,
\* and its walk back along the predecessors visits no vertex twice and ends at
\* the source, zero-weight edges and cycles included.
C17_Termination ==
    /\ [](Searching => (/\ pc # "raised"
                        /\ op # "search" => Extractions <= Cardinality(vertices) - 1
                        /\ pc = "walk" => (NoRepeat(path) /\ Len(path) <= Cardinality(vertices))
                        /\ (pc = "done" /\ result[2] # << >>) =>
                              (NoRepeat(result[2]) /\ result[2][1] = source)))
    /\ (pc \in {"loop", "extract", "relax", "walk"}) ~> (pc = "done")

\* C17's case: a search over a graph with a cycle of zero-weight edges has
\* returned a path through all vertices after |V| - 1 extractions.
C17_Witness ==
    /\ Searching /\ pc = "done"
    /\ Extractions = MaxVertices - 1
    /\ Len(result[2]) = MaxVertices
    /\ \E x, y \in vertices :
          x # y /\ <<x, y, 0>> \in AllEdges /\ <<y, x, 0>> \in AllEdges

\* The vertices that have left the queue of the search under way.
Extracted == vertices \ LiveItems(heap)

\* A step that leaves the distance and the predecessor of every extracted
\* vertex as they are.
ExtractedUntouched ==
    \A x \in Extracted :
        /\ distance'[x] = distance[x]
        /\ (x \in DOMAIN predecessor') = (x \in DOMAIN predecessor)
        /\ x \in DOMAIN predecessor => predecessor'[x] = predecessor[x]

ExtractedNeverUpdated ==
    [][(pc \in {"loop", "extract", "relax", "walk"}) => ExtractedUntouched]_vars

\* C18: when a vertex is extracted its recorded distance is its true shortest
\* distance from the source (infinity if unreachable), and from then on its
\* distance and predecessor are never updated; the search never calls
\* change_weight on a vertex that has left the queue, and every call it makes
\* strictly lowers the weight of a vertex still queued.
C18_SettledAtExtraction ==
    /\ []((Searching /\ op # "search") =>
            /\ \A x \in Extracted : distance[x] = ShortestDistance(source, x)
            /\ op = "pop" => (v = ret[1] /\ v_dist = ShortestDistance(source, v))
            /\ op = "change_weight" =>
                  /\ exc = NoError
                  /\ arg[1] \in LiveItems(pre) /\ arg[1] \in LiveItems(heap)
                  /\ arg[2] < PairOf(pre, arg[1])[1]
                  /\ PairOf(heap, arg[1])[1] = arg[2])
    /\ ExtractedNeverUpdated

\* C18's case: the search has lowered a queued vertex's weight while relaxing
\* the edges of a vertex other than the source, after passing over an edge
\* that leads back to a vertex already extracted.
C18_Witness ==
    /\ Searching /\ op = "change_weight"
    /\ Cardinality(Extracted) >= 2
    /\ v # source /\ v_dist > 0
    /\ \E i \in 1..Len(edges[v]) : i < k - 1 /\ edges[v][i][1] \in Extracted \ {v}

\* The slots of the list that hold the item.
Slots(L, item) == {i \in 0..(Size(L) - 1) : Get(L, i)[2] = item}

\* C19: push does not look whether the item is present: pushing an item that
\* has a slot succeeds, the size grows by one and the item has one live slot
\* more, at least two, so that a change_weight on it fails and updates nothing.
C19_PushOfPresentItem ==
    /\ (op = "push" /\ arg[1] \in LiveItems(pre)) =>
          /\ exc = NoError
          /\ Size(heap) = Size(pre) + 1
          /\ Cardinality(Slots(heap, arg[1])) = Cardinality(Slots(pre, arg[1])) + 1
          /\ heap.idx[arg[1]] = Slots(heap, arg[1])
          /\ ~IndexConsistent(heap)
          /\ \A weight \in Weights :
                IH_change_weight(heap, arg[1], weight).L.raised = "ValueError"
    /\ (op = "change_weight" /\ Cardinality(Slots(pre, arg[1])) >= 2) =>
          (exc = "ValueError" /\ SameList(heap, pre))

\* C19's case: an item was pushed a second time and a change_weight on it has
\* then failed.
C19_Witness ==
    /\ op = "change_weight" /\ exc = "ValueError"
    /\ Cardinality(Slots(heap, arg[1])) = 2
    /\ Size(heap) >= 3
    /\ \E i, j \in Slots(heap, arg[1]) : Get(heap, i)[1] # Get(heap, j)[1]

\* A step of the search that takes from the queue the vertex it extracts and
\* nothing else: the queue is built over all vertices, pop removes the vertex
\* it returns, no other step adds or removes one.
QueueLosesOnlyExtracted ==
    /\ (pc = "build" /\ pc' = "loop") => LiveItems(heap') = vertices
    /\ pc = "extract" => (/\ v' \in LiveItems(heap)
                          /\ LiveItems(heap') = LiveItems(heap) \ {v'})
    /\ pc \in {"loop", "relax", "walk"} => LiveItems(heap') = LiveItems(heap)

QueueIsUnextracted == [][QueueLosesOnlyExtracted]_vars

\* C20: at the start of every iteration of the search loop the queue holds
\* exactly the vertices not yet extracted, each once, and the weight queued for
\* a vertex is its entry in the distance map.
C20_QueueMirrorsDistance ==
    /\ QueueIsUnextracted
    /\ []((Searching /\ op # "search" /\ pc = "loop") =>
            /\ LiveItems(heap) \subseteq vertices
            /\ \A x \in LiveItems(heap) :
                  /\ Cardinality(Slots(heap, x)) = 1
                  /\ heap.idx[x] = Slots(heap, x)
                  /\ PairOf(heap, x)[1] = distance[x]
            /\ \A x \in Extracted : heap.idx[x] = {})

\* C20's case: an iteration begins after a vertex was extracted and the weight
\* of a vertex still queued was lowered to a distance between 0 and infinity.
C20_Witness ==
    /\ Searching /\ pc = "loop" /\ op = "change_weight"
    /\ Extracted # {} /\ Size(heap) >= 2
    /\ \E x \in LiveItems(heap) : 0 < distance[x] /\ distance[x] < Inf

====
